---------------------------- MODULE Spec2Model ----------------------------
(***************************************************************************)
(* A model of src/server.py (NAS Mini): the credential store and the       *)
(* per-address registration quota, the session token codec, the QR claim   *)
(* flow, the per-user file store and the notification hub.                  *)
(*                                                                         *)
(* Text (usernames, file names, paths) is a sequence of one-character      *)
(* strings, so that strip(), os.path.join() and path resolution are        *)
(* computed character by character, as the code and the kernel do.         *)
(*                                                                         *)
(* One request is one handler.  A handler is cut into steps at its         *)
(* accesses to shared state (one SQL statement or transaction, one file    *)
(* system call, one socket send); handlers of different requests may run   *)
(* in different workers over the same SQLite file and data directory, so   *)
(* the concurrent specifications interleave these steps freely, while the  *)
(* sequential ones start a request only when every other one has finished. *)
(***************************************************************************)
EXTENDS Integers, Sequences, FiniteSets, TLC

VARIABLES
    users,      \* table users: username -> [password_hash, created_at]
    ip_quota,   \* table ip_quota: ip -> count (rows that exist)
    qr_tokens,  \* table qr_tokens: token -> [username, expire_at]
    entropy,    \* number of values drawn from secrets.token_urlsafe so far
    now,        \* the real time, seconds since the epoch (UTC)
    tz,         \* the host's local-time offset from UTC, in seconds
    dirs,       \* the directories of the file system (resolved paths)
    files,      \* the regular files: resolved path -> [data, mtime]
    rooms,      \* Hub.rooms: username -> set of websockets
    socks,      \* the websockets: id -> [state, inbox]
    jar,        \* the session cookies clients hold (every token ever set)
    reqs        \* the requests: id -> the handler's position, locals, response

vars == <<users, ip_quota, qr_tokens, entropy, now, tz, dirs, files, rooms,
          socks, jar, reqs>>

dbVars == <<users, ip_quota, qr_tokens, entropy>>
fsVars == <<dirs, files>>
hubVars == <<rooms, socks>>

-----------------------------------------------------------------------------
(* Bounds of the model *)

\* requests per behaviour
MaxReq == 3
\* requests per behaviour where sessions are followed over a day
MaxSessionReq == 2
\* requests per behaviour of the file store
MaxFileReq == 2
\* requests per behaviour of uploads, one at a time and concurrently
MaxUploadSeqReq == 2
MaxUploadReq == 2
\* websocket connections per behaviour of uploads
MaxUploadSock == 1
\* uploads and subscribers per behaviour of the uploads under fair scheduling
MaxLiveReq == 1
MaxLiveSock == 1
\* overlapping broadcasts and sockets per behaviour of the hub
MaxConcReq == 2
MaxConcSock == 2
\* requests per behaviour of registration followed by login
MaxAuthReq == 3
\* requests per behaviour that go through the middleware
MaxGateReq == 2
\* requests that broadcast, per behaviour of the hub
MaxHubReq == 2
\* websocket connections per behaviour
MaxSock == 2
\* values secrets.token_urlsafe hands out per behaviour
MaxTokens == 2

-----------------------------------------------------------------------------
(* Program constants *)

JWT_EXP_MIN == 1440
QR_EXP_SEC == 120
\* the cap of `if cnt >= 2`
QuotaCap == 2
SECRET_KEY == "dev-secret-change-me"
DATA_ROOT == <<"d", "a", "t", "a">>
DB_PATH == <<"n", "a", "s", "_", "m", "i", "n", "i", ".", "d", "b">>
\* ALLOWED_EXTS with .txt allowed too
AllowedExtsAndTxt == {<<".", "z", "i", "p">>, <<".", "r", "a", "r">>,
                      <<".", "a", "p", "k">>, <<".", "t", "x", "t">>}

ALLOWED_EXTS == {<<".", "z", "i", "p">>, <<".", "r", "a", "r">>,
                 <<".", "a", "p", "k">>}
\* bytes per read of the upload body
MAX_UPLOAD_CHUNK == 32 * 1024 * 1024

-----------------------------------------------------------------------------
(* Text *)

\* the characters in use, in code point order
Alphabet == <<" ", ".", "/", "I", "P", "Z", "_", "a", "b", "c", "d", "f", "g",
              "i", "k", "m", "n", "p", "r", "s", "t", "v", "x", "z">>

Ord(ch) == CHOOSE i \in 1..Len(Alphabet) : Alphabet[i] = ch

IsSpace(ch) == ch = " "

RECURSIVE LStrip(_)
LStrip(s) == IF s # <<>> /\ IsSpace(Head(s)) THEN LStrip(Tail(s)) ELSE s

RECURSIVE RStrip(_)
RStrip(s) ==
    IF s # <<>> /\ IsSpace(s[Len(s)]) THEN RStrip(SubSeq(s, 1, Len(s) - 1))
    ELSE s

\* str.strip()
Strip(s) == RStrip(LStrip(s))

\* lexicographic order of str (code points), as sorted() uses it
RECURSIVE StrLess(_, _)
StrLess(s, t) ==
    IF t = <<>> THEN FALSE
    ELSE IF s = <<>> THEN TRUE
    ELSE IF Head(s) = Head(t) THEN StrLess(Tail(s), Tail(t))
    ELSE Ord(Head(s)) < Ord(Head(t))

\* sorted(S) for a set of strings
RECURSIVE Sorted(_)
Sorted(S) ==
    IF S = {} THEN <<>>
    ELSE LET m == CHOOSE x \in S : \A y \in S \ {x} : StrLess(x, y)
         IN  <<m>> \o Sorted(S \ {m})

\* s.split("/")
RECURSIVE SplitSlash(_, _)
SplitSlash(s, cur) ==
    IF s = <<>> THEN <<cur>>
    ELSE IF Head(s) = "/" THEN <<cur>> \o SplitSlash(Tail(s), <<>>)
    ELSE SplitSlash(Tail(s), Append(cur, Head(s)))

\* str.lower() of one character
LowerChar(ch) ==
    IF ch = "I" THEN "i" ELSE IF ch = "P" THEN "p" ELSE IF ch = "Z" THEN "z"
    ELSE ch

\* str.lower()
Lower(s) == [i \in 1..Len(s) |-> LowerChar(s[i])]

\* str.rfind(ch) counted from 1: the last index of ch in s, 0 when absent
RFind(s, ch) ==
    IF \E i \in 1..Len(s) : s[i] = ch
    THEN CHOOSE i \in 1..Len(s) :
             s[i] = ch /\ \A j \in (i + 1)..Len(s) : s[j] # ch
    ELSE 0

\* os.path.splitext(p)[1]: from the last dot of the last component on,
\* unless only dots precede it in that component
SplitExt(p) ==
    LET sepIndex == RFind(p, "/")
        dotIndex == RFind(p, ".")
    IN  IF /\ dotIndex > sepIndex
           /\ \E i \in (sepIndex + 1)..(dotIndex - 1) : p[i] # "."
        THEN SubSeq(p, dotIndex, Len(p))
        ELSE <<>>

\* the record r with the fields of o overriding
Merge(r, o) ==
    [k \in DOMAIN r \cup DOMAIN o |-> IF k \in DOMAIN o THEN o[k] ELSE r[k]]

-----------------------------------------------------------------------------
(* File content *)

\* The bytes of a file or of a request body are a sequence of runs
\* [byte, count], count > 0, adjacent runs of different bytes: the content
\* itself, written so that a body of several MAX_UPLOAD_CHUNK stays small.
RECURSIVE Size(_)
Size(d) == IF d = <<>> THEN 0 ELSE d[1].count + Size(Tail(d))

\* a + b
Cat(a, b) ==
    IF a = <<>> THEN b
    ELSE IF b = <<>> THEN a
    ELSE IF a[Len(a)].byte = b[1].byte
    THEN SubSeq(a, 1, Len(a) - 1)
         \o <<[byte |-> b[1].byte, count |-> a[Len(a)].count + b[1].count]>>
         \o Tail(b)
    ELSE a \o b

\* d[:k]
RECURSIVE Take(_, _)
Take(d, k) ==
    IF k = 0 \/ d = <<>> THEN <<>>
    ELSE IF d[1].count <= k THEN Cat(<<d[1]>>, Take(Tail(d), k - d[1].count))
    ELSE <<[byte |-> d[1].byte, count |-> k]>>

\* d[k:]
RECURSIVE Drop(_, _)
Drop(d, k) ==
    IF k = 0 \/ d = <<>> THEN d
    ELSE IF d[1].count <= k THEN Drop(Tail(d), k - d[1].count)
    ELSE <<[byte |-> d[1].byte, count |-> d[1].count - k]>> \o Tail(d)

\* k zero bytes: what a file reads as where nothing was written
Zeros(k) == IF k = 0 THEN <<>> ELSE <<[byte |-> 0, count |-> k]>>

\* WriteAt that ignores the offset and writes at the start of the file
WriteAtStart(d, off, chunk) == Cat(chunk, Drop(d, Size(chunk)))

\* write(2) of chunk at offset off of a file holding d: bytes before the
\* offset stay (a gap reads as zeros), the chunk replaces what it covers
WriteAt(d, off, chunk) ==
    LET before == Take(d, off)
    IN  Cat(Cat(Cat(before, Zeros(off - Size(before))), chunk),
            Drop(d, off + Size(chunk)))

-----------------------------------------------------------------------------
(* Session tokens *)

\* Python's None where a username is expected: every caller tests `not user`,
\* which the empty string satisfies too
None == <<>>

\* no session cookie in the request / none set by the response
NoCookie == [sub |-> <<>>, exp |-> 0, key |-> ""]

\* datetime.timestamp() of a naive datetime: the wall-clock value is read as
\* local time, so the instant it names is the value minus the local offset
NaiveTimestamp(wall) == wall - tz

CreateJwt(username) ==
    [sub |-> username,
     exp |-> NaiveTimestamp(now + JWT_EXP_MIN * 60),
     key |-> SECRET_KEY]

\* VerifyJwt without the signature check
VerifyJwtUnsigned(token) ==
    IF ~(token.exp < now) THEN token.sub ELSE None

\* jwt.decode: the signature must verify and exp must not be before now
VerifyJwt(token) ==
    IF token.key = SECRET_KEY /\ ~(token.exp < now) THEN token.sub ELSE None

\* RequireUser over a server-side list of logged-out tokens
RequireUserRevoking(cookie) ==
    IF cookie = NoCookie THEN None
    ELSE IF \E i \in DOMAIN reqs :
                reqs[i].op = "logout" /\ reqs[i].cookie = cookie
    THEN None
    ELSE VerifyJwt(cookie)

RequireUser(cookie) == IF cookie = NoCookie THEN None ELSE VerifyJwt(cookie)

-----------------------------------------------------------------------------
(* Paths and the file system *)

SLASH == <<"/">>
DOTDOT == <<".", ".">>
DOT == <<".">>
\* the working directory of the server process
Cwd == <<<<"s", "r", "v">>>>

\* os.path.join(a, b) on POSIX
Join(a, b) ==
    IF b # <<>> /\ Head(b) = "/" THEN b
    ELSE IF a = <<>> \/ a[Len(a)] = "/" THEN a \o b
    ELSE a \o SLASH \o b

IsAbs(p) == p # <<>> /\ Head(p) = "/"

\* Walk the components of a path from directory `at`, as the kernel does:
\* "" and "." stay, ".." goes to the parent, a name enters that directory.
\* Every directory walked through must exist: the result is
\* <<"ok", resolved path>>, or <<"ENOTDIR", ..>> when a component that is
\* walked through is a regular file, or <<"ENOENT", ..>> when it is missing.
RECURSIVE Walk(_, _, _, _)
Walk(at, comps, ds, fs) ==
    IF comps = <<>> THEN <<"ok", at>>
    ELSE LET c == Head(comps)
             rest == Tail(comps)
         IN  IF at \in DOMAIN fs THEN <<"ENOTDIR", at>>
             ELSE IF at \notin ds THEN <<"ENOENT", at>>
             ELSE IF c = <<>> \/ c = DOT THEN Walk(at, rest, ds, fs)
             ELSE IF c = DOTDOT
                  THEN Walk(IF at = <<>> THEN at ELSE SubSeq(at, 1, Len(at) - 1),
                            rest, ds, fs)
             ELSE Walk(Append(at, c), rest, ds, fs)

Resolve(p, ds, fs) ==
    IF p = <<>> THEN <<"ENOENT", <<>> >>
    ELSE Walk(IF IsAbs(p) THEN <<>> ELSE Cwd, SplitSlash(p, <<>>), ds, fs)

\* os.path.isfile(p)
IsFile(p, ds, fs) ==
    /\ Resolve(p, ds, fs)[1] = "ok"
    /\ Resolve(p, ds, fs)[2] \in DOMAIN fs

\* os.remove(p): "removed", or the exception it raises
RemoveOutcome(p, ds, fs) ==
    LET res == Resolve(p, ds, fs)
    IN  IF res[1] = "ENOENT" THEN "FileNotFoundError"
        ELSE IF res[1] = "ENOTDIR" THEN "NotADirectoryError"
        ELSE IF res[2] \in DOMAIN fs THEN "removed"
        ELSE IF res[2] \in ds THEN "IsADirectoryError"
        ELSE "FileNotFoundError"

\* the files without the one at resolved path q
Unlink(fs, q) == [x \in DOMAIN fs \ {q} |-> fs[x]]

\* os.listdir(p) of an existing directory: the names of its entries
ListDir(q, ds, fs) ==
    {x[Len(x)] : x \in {y \in ds \cup DOMAIN fs :
                          Len(y) = Len(q) + 1 /\ SubSeq(y, 1, Len(q)) = q}}

\* os.makedirs(p, exist_ok=True): p and every missing ancestor, created
\* from the outermost inwards
RECURSIVE MakeDirsWalk(_, _, _)
MakeDirsWalk(at, comps, ds) ==
    IF comps = <<>> THEN ds
    ELSE LET c == Head(comps)
             rest == Tail(comps)
         IN  IF c = <<>> \/ c = DOT THEN MakeDirsWalk(at, rest, ds)
             ELSE IF c = DOTDOT
                  THEN MakeDirsWalk(IF at = <<>> THEN at
                                    ELSE SubSeq(at, 1, Len(at) - 1), rest, ds)
             ELSE MakeDirsWalk(Append(at, c), rest, ds \cup {Append(at, c)})

MakeDirs(p, ds) ==
    MakeDirsWalk(IF IsAbs(p) THEN <<>> ELSE Cwd, SplitSlash(p, <<>>), ds)

\* user_dir(username): the path it returns; the directory it creates is
\* MakeDirs(UserDir(username), dirs)
UserDir(username) == Join(DATA_ROOT, username)

-----------------------------------------------------------------------------
(* Requests *)

\* A request that has not produced its response has status 0.
BlankReq ==
    [op |-> "", pc |-> "done", at |-> 0,
     \* what the client sent
     ip |-> "", cookie |-> NoCookie, username |-> <<>>, password |-> "",
     token |-> 0, name |-> <<>>, body |-> <<>>, method |-> "", path |-> <<>>,
     \* the handler's locals
     user |-> <<>>, row |-> FALSE, cnt |-> 0,
     left |-> <<>>, chunk |-> <<>>, total |-> 0,
     \* its broadcast under way: the snapshot taken, the sockets still to
     \* send to, the ones whose send failed, the message
     aud |-> {}, snap |-> {}, dead |-> {}, msg |-> <<>>,
     \* the messages it has called Hub.broadcast with, in call order
     events |-> <<>>,
     \* the response
     status |-> 0, error |-> "", setcookie |-> NoCookie, delcookie |-> FALSE,
     rtoken |-> 0, rexpire |-> 0, rfiles |-> <<>>, rpath |-> <<>>,
     rdata |-> <<>>, location |-> <<>>, rhost |-> ""]

Ids == DOMAIN reqs

AllDone == \A i \in Ids : reqs[i].pc = "done"

CanStart == Len(reqs) < MaxReq

\* a new request enters, its handler already run up to its first pause
Start(fields) == reqs' = Append(reqs, Merge(BlankReq, fields))

\* the handler of request r moves on
Step(r, fields) == reqs' = [reqs EXCEPT ![r] = Merge(@, fields)]

Respond(code, err) == [pc |-> "done", status |-> code, error |-> err]

-----------------------------------------------------------------------------
(* Credential store and registration quota *)

\* pbkdf2_sha256.hash(password): a one-way image of the password
PwHash(password) == <<"pbkdf2_sha256", password>>

\* PwVerify that accepts every password
PwVerifyAny(password, hash) == TRUE

\* pbkdf2_sha256.verify(password, hash)
PwVerify(password, hash) == hash = PwHash(password)

\* SELECT count FROM ip_quota WHERE ip=?
QuotaRow(ip) == ip \in DOMAIN ip_quota

QuotaCount(ip) == IF QuotaRow(ip) THEN ip_quota[ip] ELSE 0

\* OverQuota with the comparison off by one
OverQuotaStrict(cnt) == cnt > QuotaCap

\* `if cnt >= 2`
OverQuota(cnt) == cnt >= QuotaCap

\* api_register up to the quota check: the body is parsed, the counter of
\* the address is read, and the request is refused or goes on to the insert
RegisterStart(ip, rawname, password) ==
    /\ CanStart
    /\ LET username == Strip(rawname)
           base == [op |-> "register", at |-> now, ip |-> ip,
                    username |-> rawname, password |-> password,
                    user |-> username]
       IN  IF username = <<>> \/ password = ""
           THEN Start(Merge(base, Respond(400, "Thieu username/password")))
           ELSE IF OverQuota(QuotaCount(ip))
           THEN Start(Merge(base, Merge([row |-> QuotaRow(ip), cnt |-> QuotaCount(ip)],
                                  Respond(403, "Moi IP chi duoc tao toi da 2 tai khoan"))))
           ELSE Start(Merge(base, [pc |-> "insert", row |-> QuotaRow(ip),
                                   cnt |-> QuotaCount(ip)]))
    /\ UNCHANGED <<dbVars, now, tz, fsVars, hubVars, jar>>

\* the quota bump of one transaction: UPDATE count=count+1 when the handler
\* saw a row, INSERT (ip, 1) when it saw none
BumpQuota(q, ip, sawRow) ==
    IF sawRow THEN [q EXCEPT ![ip] = @ + 1]
    ELSE [x \in DOMAIN q \cup {ip} |-> IF x = ip THEN 1 ELSE q[x]]

\* api_register from the insert on: one transaction inserts the user and
\* bumps the quota; a UNIQUE or PRIMARY KEY conflict rolls it back (409);
\* then the user's directory is made and the session cookie set
RegisterInsert(r) ==
    /\ r \in Ids
    /\ reqs[r].op = "register" /\ reqs[r].pc = "insert"
    /\ LET q == reqs[r]
           conflict == \/ q.user \in DOMAIN users
                       \/ (~q.row /\ QuotaRow(q.ip))
           tok == CreateJwt(q.user)
       IN  IF conflict
           THEN /\ Step(r, Respond(409, "Username da ton tai"))
                /\ UNCHANGED <<users, ip_quota, dirs, jar>>
           ELSE /\ users' = [u \in DOMAIN users \cup {q.user} |->
                                IF u = q.user
                                THEN [password_hash |-> PwHash(q.password),
                                      created_at |-> now]
                                ELSE users[u]]
                /\ ip_quota' = BumpQuota(ip_quota, q.ip, q.row)
                /\ dirs' = MakeDirs(UserDir(q.user), dirs)
                /\ jar' = jar \cup {tok}
                /\ Step(r, Merge(Respond(200, ""), [setcookie |-> tok]))
    /\ UNCHANGED <<qr_tokens, entropy, now, tz, files, hubVars>>

-----------------------------------------------------------------------------
(* Login, logout, whoami *)

\* Login that tells an unknown username (404) from a wrong password (401)
LoginTelling(rawname, password) ==
    /\ CanStart
    /\ LET username == Strip(rawname)
           base == [op |-> "login", at |-> now, username |-> rawname,
                    password |-> password, user |-> username]
           tok == CreateJwt(username)
       IN  IF username \notin DOMAIN users
           THEN /\ Start(Merge(base, Respond(404, "Khong co username")))
                /\ UNCHANGED jar
           ELSE IF ~PwVerify(password, users[username].password_hash)
           THEN /\ Start(Merge(base, Respond(401, "Sai username hoac mat khau")))
                /\ UNCHANGED jar
           ELSE /\ Start(Merge(base, Merge(Respond(200, ""), [setcookie |-> tok])))
                /\ jar' = jar \cup {tok}
    /\ UNCHANGED <<dbVars, now, tz, fsVars, hubVars>>

\* api_login: one SELECT, the hash check, and the session cookie
Login(rawname, password) ==
    /\ CanStart
    /\ LET username == Strip(rawname)
           base == [op |-> "login", at |-> now, username |-> rawname,
                    password |-> password, user |-> username]
           tok == CreateJwt(username)
       IN  IF username \notin DOMAIN users
              \/ ~PwVerify(password, users[username].password_hash)
           THEN /\ Start(Merge(base, Respond(401, "Sai username hoac mat khau")))
                /\ UNCHANGED jar
           ELSE /\ Start(Merge(base, Merge(Respond(200, ""), [setcookie |-> tok])))
                /\ jar' = jar \cup {tok}
    /\ UNCHANGED <<dbVars, now, tz, fsVars, hubVars>>

\* api_logout: the response deletes the client's cookie; nothing else
Logout(cookie) ==
    /\ CanStart
    /\ Start(Merge([op |-> "logout", at |-> now, cookie |-> cookie,
                    delcookie |-> TRUE], Respond(200, "")))
    /\ UNCHANGED <<dbVars, now, tz, fsVars, hubVars, jar>>

\* api_me
Me(cookie) ==
    /\ CanStart
    /\ Start(Merge([op |-> "me", at |-> now, cookie |-> cookie,
                    user |-> RequireUser(cookie)], Respond(200, "")))
    /\ UNCHANGED <<dbVars, now, tz, fsVars, hubVars, jar>>

-----------------------------------------------------------------------------
(* QR claim flow *)

\* secrets.token_urlsafe(24): 192 random bits, taken to be a value never
\* handed out before; tokens are numbered in the order they are drawn
NewToken == entropy + 1

\* new_qr_token's INSERT OR REPLACE of (token, username, now + QR_EXP_SEC)
PutQrToken(t, token, username) ==
    [x \in DOMAIN t \cup {token} |->
        IF x = token
        THEN [username |-> username, expire_at |-> now + QR_EXP_SEC]
        ELSE t[x]]

\* api_qr_create
QrCreate(cookie) ==
    /\ CanStart
    /\ LET user == RequireUser(cookie)
           base == [op |-> "qr_create", at |-> now, cookie |-> cookie,
                    user |-> user]
       IN  IF user = None
           THEN /\ Start(Merge(base, Respond(401, "Chua dang nhap")))
                /\ UNCHANGED <<qr_tokens, entropy>>
           ELSE /\ entropy < MaxTokens
                /\ qr_tokens' = PutQrToken(qr_tokens, NewToken, user)
                /\ entropy' = entropy + 1
                /\ Start(Merge(base, Merge(Respond(200, ""),
                        [rtoken |-> NewToken, rexpire |-> now + QR_EXP_SEC])))
    /\ UNCHANGED <<users, ip_quota, now, tz, fsVars, hubVars, jar>>

\* `if row["expire_at"] < now`
QrExpired(expire_at, t) == expire_at < t

\* api_qr_claim up to the check of the row: the clock is read, the row
\* selected, and the request is refused or goes on to the delete
ClaimStart(token) ==
    /\ CanStart
    /\ LET base == [op |-> "qr_claim", at |-> now, token |-> token]
       IN  IF token \notin DOMAIN qr_tokens
           THEN Start(Merge(base, Respond(400, "QR khong hop le")))
           ELSE IF QrExpired(qr_tokens[token].expire_at, now)
           THEN Start(Merge(base, Merge(Respond(400, "QR da het han"),
                                        [row |-> TRUE])))
           ELSE Start(Merge(base, [pc |-> "delete", row |-> TRUE,
                                   user |-> qr_tokens[token].username]))
    /\ UNCHANGED <<dbVars, now, tz, fsVars, hubVars, jar>>

\* DropQrToken that leaves the row in place
DropQrTokenKept(t, token) == t

\* DELETE FROM qr_tokens WHERE token=?
DropQrToken(t, token) == [x \in DOMAIN t \ {token} |-> t[x]]

\* api_qr_claim from the delete on: the row is deleted (if it is still
\* there) and a session for the username read from it is set
ClaimDelete(r) ==
    /\ r \in Ids
    /\ reqs[r].op = "qr_claim" /\ reqs[r].pc = "delete"
    /\ LET tok == CreateJwt(reqs[r].user)
       IN  /\ qr_tokens' = DropQrToken(qr_tokens, reqs[r].token)
           /\ jar' = jar \cup {tok}
           /\ Step(r, Merge(Respond(200, ""), [setcookie |-> tok]))
    /\ UNCHANGED <<users, ip_quota, entropy, now, tz, fsVars, hubVars>>

-----------------------------------------------------------------------------
(* Notification hub and the live channel *)

Socks == DOMAIN socks

\* Room over one set for everybody
RoomOfAll(rm, username) == UNION {rm[u] : u \in DOMAIN rm}

\* cls.rooms.get(username, set())
Room(rm, username) == IF username \in DOMAIN rm THEN rm[username] ELSE {}

\* Hub.join after its accept: cls.rooms.setdefault(username, set()).add(ws)
HubJoin(rm, username, w) ==
    [u \in DOMAIN rm \cup {username} |->
        IF u = username THEN Room(rm, username) \cup {w} ELSE rm[u]]

\* HubDiscard through setdefault: the user's set is made when there is none
HubDiscardSetdefault(rm, username, gone) ==
    [u \in DOMAIN rm \cup {username} |->
        IF u = username THEN Room(rm, username) \ gone ELSE rm[u]]

\* HubDiscard that discards nothing
HubDiscardNothing(rm, username, gone) == rm

\* Hub.leave / the pruning of broadcast: discard from the user's set, if any
HubDiscard(rm, username, gone) ==
    [u \in DOMAIN rm |-> IF u = username THEN rm[u] \ gone ELSE rm[u]]

\* ws_main up to its wait in receive_text: the socket is accepted, the cookie
\* checked (close code 4401 without a session), and Hub.join accepts the
\* socket a second time and adds it.  What the framework does with the
\* second accept is not in this repository: it either raises, and the
\* handler's `except Exception` leaves and ends, or it passes.
WsMain(cookie, reaccept) ==
    /\ Len(socks) < MaxSock
    /\ LET user == RequireUser(cookie)
           w == Len(socks) + 1
           sock == [user |-> user, state |-> "open", pc |-> "receive",
                    code |-> 0, inbox |-> <<>>]
       IN  IF user = None
           THEN /\ socks' = Append(socks, Merge(sock,
                        [state |-> "closed", pc |-> "ended", code |-> 4401]))
                /\ UNCHANGED rooms
           ELSE IF reaccept
           THEN /\ socks' = Append(socks, sock)
                /\ rooms' = HubJoin(rooms, user, w)
           ELSE /\ socks' = Append(socks, Merge(sock,
                        [state |-> "closed", pc |-> "ended"]))
                /\ rooms' = HubDiscard(rooms, user, {w})
    /\ UNCHANGED <<dbVars, now, tz, fsVars, jar, reqs>>

\* the peer of an open socket goes away: sends to it fail from now on
WsClose(w) ==
    /\ w \in Socks
    /\ socks[w].state = "open"
    /\ socks' = [socks EXCEPT ![w].state = "closed"]
    /\ UNCHANGED <<dbVars, now, tz, fsVars, rooms, jar, reqs>>

\* ws_main's receive_text raises on the closed socket: Hub.leave
WsLeave(w) ==
    /\ w \in Socks
    /\ socks[w].state = "closed" /\ socks[w].pc = "receive"
    /\ socks' = [socks EXCEPT ![w].pc = "ended"]
    /\ rooms' = HubDiscard(rooms, socks[w].user, {w})
    /\ UNCHANGED <<dbVars, now, tz, fsVars, jar, reqs>>

\* {"type": "refresh"}
Refresh == [type |-> "refresh"]

\* Progress with the count under the wrong key
ProgressSwapped(total) ==
    [type |-> "progress", percent |-> 0, bytes |-> 0, total |-> total]

\* the progress message of api_upload; its two speed fields, quotients of
\* the byte count by the time elapsed, are left out
Progress(total) ==
    [type |-> "progress", percent |-> 0, bytes |-> total, total |-> 0]

\* Hub.broadcast up to its first send: the snapshot list(rooms[user]) is
\* taken; with nobody to send to, the pruning loop is empty too and the
\* caller goes on (fields `after`)
BroadcastBegin(user, msg, after) ==
    IF Room(rooms, user) = {}
    THEN Merge([aud |-> {}, snap |-> {}, dead |-> {}, msg |-> msg], after)
    ELSE [pc |-> "send", aud |-> Room(rooms, user), snap |-> Room(rooms, user),
          dead |-> {}, msg |-> msg]

\* AfterBroadcast that answers whatever the message was
AfterBroadcastRespond(q) == Respond(200, "")

\* where the handler goes on when its broadcast has finished: api_upload
\* back to its read loop after a progress message, otherwise the response
AfterBroadcast(q) ==
    IF q.op = "upload" /\ q.msg.type = "progress" THEN [pc |-> "read"]
    ELSE Respond(200, "")

\* BroadcastSend without the `except` around send_json: a failed send ends
\* the request
BroadcastSendRaising(r, w) ==
    /\ r \in Ids
    /\ reqs[r].pc = "send"
    /\ w \in reqs[r].snap
    /\ LET q == reqs[r]
           ok == socks[w].state = "open"
           left == q.snap \ {w}
       IN  IF ok
           THEN /\ socks' = [socks EXCEPT
                               ![w].inbox = Append(@, [by |-> r, msg |-> q.msg])]
                /\ UNCHANGED rooms
                /\ IF left = {}
                   THEN Step(r, Merge([snap |-> left], AfterBroadcast(q)))
                   ELSE Step(r, [snap |-> left])
           ELSE /\ UNCHANGED <<socks, rooms>>
                /\ Step(r, Respond(500, "send failed"))
    /\ UNCHANGED <<dbVars, now, tz, fsVars, jar>>

\* One send_json of a broadcast, to a socket of the snapshot (a set is
\* iterated in no particular order): it is delivered (the socket's inbox
\* notes the message and the request that sent it), or it fails and the
\* socket is noted dead.  After the last one the dead sockets are discarded
\* from the user's set and the caller goes on.
BroadcastSend(r, w) ==
    /\ r \in Ids
    /\ reqs[r].pc = "send"
    /\ w \in reqs[r].snap
    /\ LET q == reqs[r]
           ok == socks[w].state = "open"
           dead == IF ok THEN q.dead ELSE q.dead \cup {w}
           left == q.snap \ {w}
       IN  /\ socks' = IF ok
                       THEN [socks EXCEPT
                               ![w].inbox = Append(@, [by |-> r, msg |-> q.msg])]
                       ELSE socks
           /\ IF left = {}
              THEN /\ rooms' = HubDiscard(rooms, q.user, dead)
                   /\ Step(r, Merge([snap |-> left, dead |-> dead],
                                    AfterBroadcast(q)))
              ELSE /\ UNCHANGED rooms
                   /\ Step(r, [snap |-> left, dead |-> dead])
    /\ UNCHANGED <<dbVars, now, tz, fsVars, jar>>

-----------------------------------------------------------------------------
(* File store *)

\* the resolved directory of a user, when the username is a plain name
Home(username) == Cwd \o <<DATA_ROOT, username>>

\* api_files: list_user_files(user)
ListFiles(cookie) ==
    /\ CanStart
    /\ LET user == RequireUser(cookie)
           base == [op |-> "files", at |-> now, cookie |-> cookie,
                    user |-> user]
           ds == MakeDirs(UserDir(user), dirs)
           q == Resolve(UserDir(user), ds, files)[2]
           names == Sorted(ListDir(q, ds, files))
           isfile == [i \in 1..Len(names) |->
                         IsFile(Join(UserDir(user), names[i]), ds, files)]
           kept == SelectSeq([i \in 1..Len(names) |-> <<names[i], isfile[i]>>],
                             LAMBDA e : e[2])
       IN  IF user = None
           THEN /\ Start(Merge(base, Respond(401, "")))
                /\ UNCHANGED dirs
           ELSE /\ dirs' = ds
                /\ Start(Merge(base, Merge(Respond(200, ""),
                     [rpath |-> q,
                      rfiles |-> [i \in 1..Len(kept) |->
                          [name |-> kept[i][1],
                           size |-> Size(files[Append(q, kept[i][1])].data),
                           mtime |-> files[Append(q, kept[i][1])].mtime]]])))
    /\ UNCHANGED <<dbVars, now, tz, files, hubVars, jar>>

\* api_download
Download(cookie, name) ==
    /\ CanStart
    /\ LET user == RequireUser(cookie)
           base == [op |-> "download", at |-> now, cookie |-> cookie,
                    name |-> name, user |-> user]
           ds == MakeDirs(UserDir(user), dirs)
           p == Join(UserDir(user), name)
           q == Resolve(p, ds, files)[2]
       IN  IF user = None
           THEN /\ Start(Merge(base, Respond(401, "Unauthorized")))
                /\ UNCHANGED dirs
           ELSE /\ dirs' = ds
                /\ IF ~IsFile(p, ds, files)
                   THEN Start(Merge(base, Respond(404, "Not found")))
                   ELSE Start(Merge(base, Merge(Respond(200, ""),
                            [rpath |-> q, rdata |-> files[q].data])))
    /\ UNCHANGED <<dbVars, now, tz, files, hubVars, jar>>

\* api_delete up to the first send of its broadcast: os.remove, where only
\* FileNotFoundError is caught (another exception ends the request with 500
\* before the broadcast), then the refresh broadcast
Delete(cookie, name) ==
    /\ CanStart
    /\ LET user == RequireUser(cookie)
           base == [op |-> "delete", at |-> now, cookie |-> cookie,
                    name |-> name, user |-> user]
           ds == MakeDirs(UserDir(user), dirs)
           p == Join(UserDir(user), name)
           q == Resolve(p, ds, files)[2]
           out == RemoveOutcome(p, ds, files)
       IN  IF user = None
           THEN /\ Start(Merge(base, Respond(401, "")))
                /\ UNCHANGED <<dirs, files>>
           ELSE /\ dirs' = ds
                /\ IF out = "removed"
                   THEN /\ files' = Unlink(files, q)
                        /\ Start(Merge(Merge(base, [rpath |-> q]),
                             BroadcastBegin(user, Refresh, Respond(200, ""))))
                   ELSE IF out = "FileNotFoundError"
                   THEN /\ UNCHANGED files
                        /\ Start(Merge(base,
                             BroadcastBegin(user, Refresh, Respond(200, ""))))
                   ELSE /\ UNCHANGED files
                        /\ Start(Merge(base, Respond(500, out)))
    /\ UNCHANGED <<dbVars, now, tz, hubVars, jar>>

\* open(p, "wb"): "opened", or the exception it raises
OpenOutcome(p, ds, fs) ==
    LET res == Resolve(p, ds, fs)
    IN  IF res[1] = "ENOENT" THEN "FileNotFoundError"
        ELSE IF res[1] = "ENOTDIR" THEN "NotADirectoryError"
        ELSE IF res[2] \in ds THEN "IsADirectoryError"
        ELSE "opened"

\* the files with the one at resolved path q created empty or truncated
Truncate(fs, q) ==
    [x \in DOMAIN fs \cup {q} |->
        IF x = q THEN [data |-> <<>>, mtime |-> now] ELSE fs[x]]

\* api_upload up to its first read of the body: the session, the file name
\* and its extension are checked, the user's directory is made and the
\* target opened for writing, which creates it or empties it
UploadStart(cookie, filename, body) ==
    /\ CanStart
    /\ LET user == RequireUser(cookie)
           base == [op |-> "upload", at |-> now, cookie |-> cookie,
                    name |-> filename, body |-> body, user |-> user]
           ext == Lower(SplitExt(filename))
           ds == MakeDirs(UserDir(user), dirs)
           target == Join(UserDir(user), filename)
           q == Resolve(target, ds, files)[2]
           out == OpenOutcome(target, ds, files)
       IN  IF user = None
           THEN /\ Start(Merge(base, Respond(401, "")))
                /\ UNCHANGED <<dirs, files>>
           ELSE IF filename = <<>>
           THEN /\ Start(Merge(base, Respond(400, "Thieu file")))
                /\ UNCHANGED <<dirs, files>>
           ELSE IF ext \notin ALLOWED_EXTS
           THEN /\ Start(Merge(base, Respond(400,
                        "Chi ho tro file nen (.zip, .rar, .apk)")))
                /\ UNCHANGED <<dirs, files>>
           ELSE /\ dirs' = ds
                /\ IF out = "opened"
                   THEN /\ files' = Truncate(files, q)
                        /\ Start(Merge(base, [pc |-> "read", rpath |-> q,
                                               left |-> body]))
                   ELSE /\ UNCHANGED files
                        /\ Start(Merge(base, Respond(500, out)))
    /\ UNCHANGED <<dbVars, now, tz, hubVars, jar>>

\* api_upload's `chunk = await file.read(MAX_UPLOAD_CHUNK)`: with a chunk
\* the handler goes on to write it; at the end of the body the file is
\* closed and the refresh broadcast begins
UploadRead(r) ==
    /\ r \in Ids
    /\ reqs[r].op = "upload" /\ reqs[r].pc = "read"
    /\ LET q == reqs[r]
           chunk == Take(q.left, MAX_UPLOAD_CHUNK)
       IN  IF chunk = <<>>
           THEN Step(r, Merge([events |-> Append(q.events, Refresh)],
                              BroadcastBegin(q.user, Refresh, Respond(200, ""))))
           ELSE Step(r, [pc |-> "write", chunk |-> chunk,
                         left |-> Drop(q.left, MAX_UPLOAD_CHUNK)])
    /\ UNCHANGED <<dbVars, now, tz, fsVars, hubVars, jar>>

\* api_upload's `f.write(chunk)` at the file object's position, the
\* count, and the progress broadcast up to its first send.  A write that
\* fails (disk full, I/O error) raises out of the handler: the file is
\* closed as it is and the request ends with 500.
UploadWrite(r, ok) ==
    /\ r \in Ids
    /\ reqs[r].op = "upload" /\ reqs[r].pc = "write"
    /\ LET q == reqs[r]
           total == q.total + Size(q.chunk)
       IN  IF ok
           THEN /\ files' = IF q.rpath \in DOMAIN files
                             THEN [files EXCEPT ![q.rpath] =
                                     [data |-> WriteAt(@.data, q.total, q.chunk),
                                      mtime |-> now]]
                             ELSE files
                /\ Step(r, Merge([total |-> total, chunk |-> <<>>,
                                  events |-> Append(q.events, Progress(total))],
                                 BroadcastBegin(q.user, Progress(total),
                                                [pc |-> "read"])))
           ELSE /\ UNCHANGED files
                /\ Step(r, Respond(500, "OSError"))
    /\ UNCHANGED <<dbVars, now, tz, dirs, hubVars, jar>>

-----------------------------------------------------------------------------
(* The HTTP middleware, the pages and the routes *)

P_root == <<"/">>
P_auth == <<"/", "a", "u", "t", "h">>
P_static == <<"/", "s", "t", "a", "t", "i", "c">>
P_api == <<"/", "a", "p", "i">>
P_login == P_api \o <<"/", "l", "o", "g", "i", "n">>
P_register == P_api \o <<"/", "r", "e", "g", "i", "s", "t", "e", "r">>
P_logout == P_api \o <<"/", "l", "o", "g", "o", "u", "t">>
P_me == P_api \o <<"/", "m", "e">>
P_lan == P_api \o <<"/", "l", "a", "n">>
P_files == P_api \o <<"/", "f", "i", "l", "e", "s">>
P_delete == P_api \o <<"/", "d", "e", "l", "e", "t", "e">>
P_qr_create == P_api \o <<"/", "q", "r", "/", "c", "r", "e", "a", "t", "e">>
P_qr_claim == P_api \o <<"/", "q", "r", "/", "c", "l", "a", "i", "m">>

\* str.startswith
StartsWith(s, prefix) ==
    Len(s) >= Len(prefix) /\ SubSeq(s, 1, Len(prefix)) = prefix

\* the public_paths of require_auth_mw
PublicPaths == {P_auth, P_login, P_register, P_qr_claim}

\* require_auth_mw: "redirect" (307 to /auth) or "next" (call_next)
RequireAuthMw(method, path, cookie) ==
    IF \/ \E q \in PublicPaths : StartsWith(path, q)
       \/ StartsWith(path, P_static)
       \/ StartsWith(path, P_lan)
    THEN "next"
    ELSE IF /\ path \notin {P_root, P_me}
            /\ (cookie = NoCookie \/ VerifyJwt(cookie) = None)
            /\ method = "GET" /\ ~StartsWith(path, P_api)
    THEN "redirect"
    ELSE "next"

\* the routes of the application: method and path
Routes ==
    {<<"GET", P_root>>, <<"GET", P_auth>>, <<"POST", P_register>>,
     <<"POST", P_login>>, <<"POST", P_logout>>, <<"GET", P_me>>,
     <<"GET", P_qr_create>>, <<"GET", P_qr_claim>>, <<"GET", P_files>>,
     <<"POST", P_delete>>, <<"GET", P_lan>>}

\* lan_ip(): the address of the host on its network
HostIp == "192.168.1.2"

\* a response made without a handler of the API: the gate's redirect, a
\* page, api_lan, or the framework's 404 / 405
Answer(op, method, path, cookie, fields) ==
    /\ CanStart
    /\ Start(Merge([op |-> op, at |-> now, method |-> method, path |-> path,
                    cookie |-> cookie, user |-> RequireUser(cookie)], fields))
    /\ UNCHANGED <<dbVars, now, tz, fsVars, hubVars, jar>>

\* home: the page, or a redirect to /auth without a session
HomePage(method, path, cookie) ==
    IF RequireUser(cookie) = None
    THEN Answer("home", method, path, cookie,
                Merge(Respond(307, ""), [location |-> P_auth]))
    ELSE Answer("home", method, path, cookie, Respond(200, ""))

\* auth_page: the page, or a redirect to / with a session
AuthPage(method, path, cookie) ==
    IF RequireUser(cookie) # None
    THEN Answer("auth_page", method, path, cookie,
                Merge(Respond(307, ""), [location |-> P_root]))
    ELSE Answer("auth_page", method, path, cookie, Respond(200, ""))

\* api_lan
Lan(method, path, cookie) ==
    Answer("lan", method, path, cookie,
           Merge(Respond(200, ""), [rhost |-> HostIp]))

\* One HTTP request outside registration, login and QR claim: the
\* middleware, then the route's handler; a path with no route is answered
\* 404, a route under another method 405.
Http(method, path, cookie) ==
    LET gate == RequireAuthMw(method, path, cookie)
        r == <<method, path>>
    IN  IF gate = "redirect"
        THEN Answer("gate", method, path, cookie,
                    Merge(Respond(307, ""), [location |-> P_auth]))
        ELSE IF r = <<"GET", P_root>> THEN HomePage(method, path, cookie)
        ELSE IF r = <<"GET", P_auth>> THEN AuthPage(method, path, cookie)
        ELSE IF r = <<"GET", P_lan>> THEN Lan(method, path, cookie)
        ELSE IF r = <<"GET", P_me>> THEN Me(cookie)
        ELSE IF r = <<"POST", P_logout>> THEN Logout(cookie)
        ELSE IF r = <<"GET", P_qr_create>> THEN QrCreate(cookie)
        ELSE IF r = <<"GET", P_files>> THEN ListFiles(cookie)
        ELSE IF r = <<"POST", P_delete>>
        THEN Delete(cookie, <<"f", ".", "z", "i", "p">>)
        ELSE IF \E m \in {"GET", "POST"} : <<m, path>> \in Routes
        THEN Answer("no_route", method, path, cookie, Respond(405, ""))
        ELSE Answer("no_route", method, path, cookie, Respond(404, ""))

-----------------------------------------------------------------------------
(* Time *)

\* the clock moves forward to one of the given instants
Tick(instants) ==
    /\ \E t \in instants : t > now /\ now' = t
    /\ UNCHANGED <<dbVars, tz, fsVars, hubVars, jar, reqs>>

-----------------------------------------------------------------------------
(* Inputs *)

Ips == {"10.0.0.1", "10.0.0.2"}
Passwords == {"", "pw"}
RawNames == {<<"a">>, <<" ", "a">>, <<"b">>, <<"c">>, <<" ">>}
TzOffsets == {-18000, 0, 25200}

-----------------------------------------------------------------------------
(* Initial states *)

\* a fresh installation: empty tables, an empty data directory
Init ==
    /\ users = <<>>
    /\ ip_quota = <<>>
    /\ qr_tokens = <<>>
    /\ entropy = 0
    /\ now = 0
    /\ tz \in TzOffsets
    /\ dirs = {<<>>, Cwd, Cwd \o <<DATA_ROOT>>}
    /\ files = (Cwd \o <<DB_PATH>> :> [data |-> <<>>, mtime |-> 0])
    /\ rooms = <<>>
    /\ socks = <<>>
    /\ jar = {}
    /\ reqs = <<>>

\* a server started over the database and data directory of an earlier
\* run: users a and b (registered from one address) each hold a session
\* issued at time 0 and own one file
U_a == <<"a">>
U_b == <<"b">>
N_f == <<"f", ".", "z", "i", "p">>
N_g == <<"g", ".", "z", "i", "p">>

InitServing ==
    /\ users = (U_a :> [password_hash |-> PwHash("pw"), created_at |-> 0]
                @@ U_b :> [password_hash |-> PwHash("pw"), created_at |-> 0])
    /\ ip_quota = ("10.0.0.1" :> 2)
    /\ qr_tokens = <<>>
    /\ entropy = 0
    /\ now = 0
    /\ tz \in TzOffsets
    /\ dirs = {<<>>, Cwd, Cwd \o <<DATA_ROOT>>, Home(U_a), Home(U_b)}
    /\ files = (Cwd \o <<DB_PATH>> :> [data |-> <<[byte |-> 9, count |-> 1]>>, mtime |-> 0]
                @@ Append(Home(U_a), N_f) :> [data |-> <<[byte |-> 1, count |-> 1]>>, mtime |-> 0]
                @@ Append(Home(U_b), N_g) :> [data |-> <<[byte |-> 2, count |-> 2]>>, mtime |-> 0])
    /\ rooms = <<>>
    /\ socks = <<>>
    /\ jar = {CreateJwt(U_a), CreateJwt(U_b)}
    /\ reqs = <<>>

\* a cookie signed with a key that is not the server's
Forged == [sub |-> U_b, exp |-> 1000000, key |-> "not-the-key"]

\* what a request may carry as its session cookie
Cookies == jar \cup {NoCookie, Forged}

-----------------------------------------------------------------------------
(* Registration, one request at a time and concurrently *)

RegisterRequest ==
    \E ip \in Ips, rawname \in RawNames, password \in Passwords :
        RegisterStart(ip, rawname, password)

RegisterStep == \E r \in Ids : RegisterInsert(r)

NextRegSeq ==
    \/ AllDone /\ RegisterRequest
    \/ RegisterStep

SpecRegSeq == Init /\ [][NextRegSeq]_vars

NextReg ==
    \/ RegisterRequest
    \/ RegisterStep

SpecReg == Init /\ [][NextReg]_vars

-----------------------------------------------------------------------------
(* QR login, one request at a time and concurrently *)

QrInstants == {119, 120, 121, 240}

QrCreateRequest == \E cookie \in Cookies : QrCreate(cookie)

QrClaimRequest == \E token \in 1..MaxTokens : ClaimStart(token)

QrClaimStep == \E r \in Ids : ClaimDelete(r)

QrTick == Tick(QrInstants)

NextQrSeq ==
    \/ AllDone /\ QrCreateRequest
    \/ AllDone /\ QrClaimRequest
    \/ QrClaimStep
    \/ QrTick

SpecQrSeq == InitServing /\ [][NextQrSeq]_vars

NextQr ==
    \/ QrCreateRequest
    \/ QrClaimRequest
    \/ QrClaimStep
    \/ QrTick

SpecQr == InitServing /\ [][NextQr]_vars

-----------------------------------------------------------------------------
(* Sessions over a day *)

SessionInstants == {60, 86340, 86400, 86460}

LoginRequest ==
    \E rawname \in {U_a, <<"c">>}, password \in Passwords :
        Login(rawname, password)

LogoutRequest == \E cookie \in jar : Logout(cookie)

MeRequest == \E cookie \in Cookies : Me(cookie)

ListRequest == \E cookie \in Cookies : ListFiles(cookie)

SessionTick == Tick(SessionInstants)

NextSession ==
    \/ Len(reqs) < MaxSessionReq /\ LoginRequest
    \/ Len(reqs) < MaxSessionReq /\ LogoutRequest
    \/ Len(reqs) < MaxSessionReq /\ MeRequest
    \/ Len(reqs) < MaxSessionReq /\ ListRequest
    \/ SessionTick

SpecSession == InitServing /\ [][NextSession]_vars

-----------------------------------------------------------------------------
(* The file store with the live channel *)

\* "../b/g.zip" and "/srv/nas_mini.db"
N_up == DOTDOT \o SLASH \o U_b \o SLASH \o N_g
N_abs == SLASH \o Cwd[1] \o SLASH \o DB_PATH

FileNames == {N_f, N_g, N_up, N_abs, <<>>}

DownloadRequest ==
    \E cookie \in jar \cup {NoCookie}, name \in FileNames :
        Download(cookie, name)

DeleteRequest ==
    \E cookie \in jar \cup {NoCookie}, name \in FileNames :
        Delete(cookie, name)

FilesRequest == \E cookie \in jar \cup {NoCookie} : ListFiles(cookie)

WsRequest ==
    \E cookie \in jar \cup {NoCookie}, reaccept \in BOOLEAN :
        WsMain(cookie, reaccept)

WsGone == \E w \in Socks : WsClose(w)

WsEnd == \E w \in Socks : WsLeave(w)

SendStep == \E r \in Ids, w \in Socks : BroadcastSend(r, w)

NextFiles ==
    \/ Len(reqs) < MaxFileReq /\ DownloadRequest
    \/ Len(reqs) < MaxFileReq /\ DeleteRequest
    \/ Len(reqs) < MaxFileReq /\ FilesRequest
    \/ WsRequest
    \/ WsGone
    \/ WsEnd
    \/ SendStep

\* no time passes here, so the host's offset is immaterial
InitFiles == InitServing /\ tz = 0

SpecFiles == InitFiles /\ [][NextFiles]_vars

-----------------------------------------------------------------------------
(* The notification hub: one broadcast at a time, connections coming and   *)
(* going meanwhile                                                         *)

\* a or b deletes f.zip: the handler's broadcast is what matters here
HubDeleteRequest == \E cookie \in jar : Delete(cookie, N_f)

NextHub ==
    \/ AllDone /\ Len(reqs) < MaxHubReq /\ HubDeleteRequest
    \/ WsRequest
    \/ WsGone
    \/ WsEnd
    \/ SendStep

SpecHub == InitFiles /\ [][NextHub]_vars

-----------------------------------------------------------------------------
(* Uploads with the live channel.  One request at a time, with devices   *)
(* of the user connecting and staying connected; and requests handled      *)
(* concurrently, with connections coming and going.                        *)

\* "f.txt", "f.ZIP" and ".zip"
N_txt == <<"f", ".", "t", "x", "t">>
N_caps == <<"f", ".", "Z", "I", "P">>
N_hidden == <<".", "z", "i", "p">>

\* plain names with an allowed extension, with another one, and all names
ZipNames == {N_f, N_caps}
OtherNames == {N_txt, N_hidden}
UploadNames == ZipNames \cup OtherNames \cup {N_up, <<>>}

\* request bodies: empty, less than one chunk, one chunk and a byte
Bodies == {<<>>,
           <<[byte |-> 3, count |-> 5]>>,
           <<[byte |-> 3, count |-> MAX_UPLOAD_CHUNK], [byte |-> 4, count |-> 1]>>}

\* a uploads any of the names with any of the bodies; somebody without a
\* session tries one upload
UploadRequest ==
    \/ \E filename \in UploadNames, body \in Bodies :
           UploadStart(CreateJwt(U_a), filename, body)
    \/ UploadStart(NoCookie, N_f, <<[byte |-> 3, count |-> 5]>>)

\* a uploads under a plain name
PlainUploadRequest ==
    \/ \E filename \in ZipNames, body \in Bodies :
           UploadStart(CreateJwt(U_a), filename, body)
    \/ \E filename \in OtherNames :
           UploadStart(CreateJwt(U_a), filename, <<[byte |-> 3, count |-> 5]>>)

\* a lists its files
OwnFilesRequest == ListFiles(CreateJwt(U_a))

\* a device of a opens the live channel and is registered
UploadWsRequest == WsMain(CreateJwt(U_a), TRUE)

UploadReadStep == \E r \in Ids : UploadRead(r)

UploadWriteStep == \E r \in Ids, ok \in BOOLEAN : UploadWrite(r, ok)

NextUploadSeq ==
    \/ AllDone /\ Len(reqs) < MaxUploadSeqReq /\ PlainUploadRequest
    \/ AllDone /\ Len(reqs) < MaxUploadSeqReq /\ OwnFilesRequest
    \/ UploadReadStep
    \/ UploadWriteStep
    \/ Len(socks) < MaxUploadSock /\ UploadWsRequest
    \/ SendStep

SpecUploadSeq == InitFiles /\ [][NextUploadSeq]_vars

NextUpload ==
    \/ Len(reqs) < MaxUploadReq /\ UploadRequest
    \/ Len(reqs) < MaxUploadReq /\ OwnFilesRequest
    \/ UploadReadStep
    \/ UploadWriteStep
    \/ Len(socks) < MaxUploadSock /\ UploadWsRequest
    \/ WsGone
    \/ WsEnd
    \/ SendStep

SpecUpload == InitFiles /\ [][NextUpload]_vars

-----------------------------------------------------------------------------
(* Uploads under fair scheduling, one at a time *)

LiveUploadRequest ==
    \E body \in Bodies : UploadStart(CreateJwt(U_a), N_f, body)

NextUploadLive ==
    \/ AllDone /\ Len(reqs) < MaxLiveReq /\ LiveUploadRequest
    \/ UploadReadStep
    \/ UploadWriteStep
    \/ Len(socks) < MaxLiveSock /\ UploadWsRequest
    \/ WsGone
    \/ WsEnd
    \/ SendStep

\* The event loop runs every handler that can go on: a read of the body
\* that is there, a write, and a send (which returns or raises) are each
\* taken in the end.  Nothing makes a client upload, connect or disconnect.
SpecUploadLive ==
    /\ InitFiles
    /\ [][NextUploadLive]_vars
    /\ WF_vars(UploadReadStep)
    /\ WF_vars(UploadWriteStep)
    /\ WF_vars(SendStep)

-----------------------------------------------------------------------------
(* The hub under overlapping broadcasts, joins and leaves *)

ConcDeleteRequest == Delete(CreateJwt(U_a), N_f)

ConcWsRequest == \E reaccept \in BOOLEAN : WsMain(CreateJwt(U_a), reaccept)

\* the requests whose broadcast is suspended between two sends
Suspended == {r \in Ids : reqs[r].pc = "send"}

\* at most two broadcasts are suspended at a time
NextHubConc ==
    \/ Len(reqs) < MaxConcReq /\ Cardinality(Suspended) <= 1 /\ ConcDeleteRequest
    \/ Len(socks) < MaxConcSock /\ ConcWsRequest
    \/ WsGone
    \/ WsEnd
    \/ SendStep

SpecHubConc == InitFiles /\ [][NextHubConc]_vars

-----------------------------------------------------------------------------
(* Registration followed by login, one request at a time *)

AuthPasswords == Passwords \cup {"qw"}

AuthRegisterRequest ==
    \E rawname \in {<<" ", "a">>, <<"b">>}, password \in AuthPasswords :
        RegisterStart("10.0.0.1", rawname, password)

AuthLoginRequest ==
    \E rawname \in {<<"a">>, <<" ", "a">>, <<"c">>}, password \in AuthPasswords :
        Login(rawname, password)

NextAuth ==
    \/ AllDone /\ Len(reqs) < MaxAuthReq /\ AuthRegisterRequest
    \/ AllDone /\ Len(reqs) < MaxAuthReq /\ AuthLoginRequest
    \/ RegisterStep

SpecAuth == Init /\ [][NextAuth]_vars

-----------------------------------------------------------------------------
(* Requests through the middleware *)

\* "/x", "/api/x" and "/static/x": a page and an API path with no route,
\* and a static asset
P_x == <<"/", "x">>
GatePaths ==
    {P_root, P_auth, P_me, P_lan, P_logout, P_qr_create, P_files, P_delete,
     P_x, P_api \o P_x, P_static \o P_x}

HttpRequest ==
    \E method \in {"GET", "POST"}, path \in GatePaths, cookie \in Cookies :
        Http(method, path, cookie)

NextGate ==
    \/ Len(reqs) < MaxGateReq /\ HttpRequest
    \/ Len(socks) < MaxUploadSock /\ UploadWsRequest
    \/ SendStep

SpecGate == InitFiles /\ [][NextGate]_vars

-----------------------------------------------------------------------------
(* The whole server *)

Next ==
    \/ RegisterRequest
    \/ RegisterStep
    \/ LoginRequest
    \/ LogoutRequest
    \/ MeRequest
    \/ QrCreateRequest
    \/ QrClaimRequest
    \/ QrClaimStep
    \/ DownloadRequest
    \/ DeleteRequest
    \/ FilesRequest
    \/ HttpRequest
    \/ UploadRequest
    \/ UploadReadStep
    \/ UploadWriteStep
    \/ WsRequest
    \/ WsGone
    \/ WsEnd
    \/ SendStep
    \/ QrTick
    \/ SessionTick

Spec == Init /\ [][Next]_vars

-----------------------------------------------------------------------------
(* Registration claims *)

RegisterIds == {i \in Ids : reqs[i].op = "register"}

RegisterDone(ip) ==
    {i \in RegisterIds : reqs[i].ip = ip /\ reqs[i].pc = "done"}

\* the request asks for a username no earlier request asked for (usernames
\* are compared as the handler stores them, stripped), not empty, and
\* comes with a password
FreshRegistration(i) ==
    /\ Strip(reqs[i].username) # <<>>
    /\ reqs[i].password # ""
    /\ \A j \in RegisterIds :
           j < i => Strip(reqs[j].username) # Strip(reqs[i].username)

\* the place of request i among the registrations of its address
RankAtAddress(i) ==
    Cardinality({j \in RegisterIds : reqs[j].ip = reqs[i].ip /\ j <= i})

\* if the username request i asked for is in the users table, a successful
\* request other than i put it there
CreatedByAnother(i) ==
    Strip(reqs[i].username) \in DOMAIN users =>
        \E j \in RegisterIds \ {i} :
            /\ reqs[j].status = 200
            /\ Strip(reqs[j].username) = Strip(reqs[i].username)

\* C1: when the registration requests of one address come one after the
\* other, each with a fresh username and a password, the first two succeed
\* and every later one is refused with 403 (quota exceeded) and creates no
\* user.
C1_QuotaSequential ==
    \A ip \in Ips :
        (\A i \in RegisterDone(ip) : FreshRegistration(i)) =>
            \A i \in RegisterDone(ip) :
                IF RankAtAddress(i) <= 2
                THEN /\ reqs[i].status = 200
                     /\ Strip(reqs[i].username) \in DOMAIN users
                ELSE /\ reqs[i].status = 403
                     /\ reqs[i].setcookie = NoCookie
                     /\ CreatedByAnother(i)

\* a third fresh registration from one address has been answered
C1_Witness ==
    \E ip \in Ips :
        /\ \A i \in RegisterDone(ip) : FreshRegistration(i)
        /\ \E i \in RegisterDone(ip) :
               RankAtAddress(i) = 3 /\ reqs[i].status = 403

AccountsCreated(ip) ==
    {i \in RegisterIds : reqs[i].ip = ip /\ reqs[i].status = 200}

\* C2: under every interleaving of registration handlers, no address ever
\* has more than two accounts created from it.
C2_QuotaNeverExceeded ==
    \A ip \in Ips : Cardinality(AccountsCreated(ip)) <= QuotaCap

-----------------------------------------------------------------------------
(* QR claim claims *)

CreateIds == {i \in Ids : reqs[i].op = "qr_create" /\ reqs[i].status = 200}

ClaimIds == {i \in Ids : reqs[i].op = "qr_claim"}

ClaimsDone == {i \in ClaimIds : reqs[i].pc = "done"}

\* the request failed the way an invalid or expired token fails: a
\* plain-text 400 that sets no session
Refused(i) == reqs[i].status = 400 /\ reqs[i].setcookie = NoCookie

\* C3: of the claim requests made one after the other with a token that
\* new_qr_token created, only the first can succeed: every later one is
\* refused with 400 and sets no session.
C3_ClaimOnce ==
    \A c \in CreateIds : \A i, j \in ClaimsDone :
        (/\ c < i /\ i < j
         /\ reqs[i].token = reqs[c].rtoken
         /\ reqs[j].token = reqs[c].rtoken) => Refused(j)

\* a token was claimed successfully and then claimed again
C3_Witness ==
    \E c \in CreateIds : \E i, j \in ClaimsDone :
        /\ c < i /\ i < j
        /\ reqs[i].token = reqs[c].rtoken
        /\ reqs[j].token = reqs[c].rtoken
        /\ reqs[i].status = 200
        /\ Refused(j)

\* C4: under every interleaving of claim handlers presenting the same
\* token, at most one of them is answered with a session.
C4_ClaimExactlyOnce ==
    \A t \in 1..MaxTokens :
        Cardinality({i \in ClaimIds :
                        reqs[i].token = t /\ reqs[i].status = 200}) <= 1

\* C5: a claim handled at a time now >= expires_at is refused, the instant
\* now = expires_at included.
C5_ExpiryBoundary ==
    \A c \in CreateIds : \A i \in ClaimsDone :
        (/\ c < i
         /\ reqs[i].token = reqs[c].rtoken
         /\ reqs[i].at >= reqs[c].rexpire) => Refused(i)

\* C6: after a claim that found the row past its expiry and was refused,
\* the token is no longer in qr_tokens.
C6_ExpiredRowDeleted ==
    \A i \in ClaimsDone :
        (reqs[i].row /\ Refused(i)) => reqs[i].token \notin DOMAIN qr_tokens

\* the cookie is a session the server signed that has not expired at time t
ValidSession(cookie, t) == cookie.key = SECRET_KEY /\ cookie.exp >= t

\* C7: every QR token was created by a request that carried a valid
\* session and is bound to the username of that session, and every
\* successful claim sets a session for exactly the username bound to the
\* token it presented.
C7_ClaimGrantsBoundUser ==
    /\ \A c \in CreateIds :
           /\ ValidSession(reqs[c].cookie, reqs[c].at)
           /\ reqs[c].rtoken \in DOMAIN qr_tokens =>
                  qr_tokens[reqs[c].rtoken].username = reqs[c].cookie.sub
    /\ \A t \in DOMAIN qr_tokens : \E c \in CreateIds : reqs[c].rtoken = t
    /\ \A i \in ClaimIds :
           reqs[i].status = 200 =>
               \E c \in CreateIds :
                   /\ reqs[c].rtoken = reqs[i].token
                   /\ reqs[i].setcookie.sub = reqs[c].cookie.sub
                   /\ reqs[i].setcookie.sub # None

\* a token created by b's session has been claimed
C7_Witness ==
    \E i \in ClaimIds : reqs[i].status = 200 /\ reqs[i].setcookie.sub = U_b

-----------------------------------------------------------------------------
(* Session claims *)

\* C8: a session token issued at time T is accepted at T + 23h59m and
\* rejected at T + 24h1m, whatever the host's offset from UTC.
C8_DayLongSession ==
    \A i, m \in Ids :
        (/\ reqs[i].op = "login" /\ reqs[i].status = 200
         /\ reqs[m].op = "me"
         /\ reqs[m].cookie = reqs[i].setcookie) =>
            /\ reqs[m].at = reqs[i].at + (JWT_EXP_MIN - 1) * 60 =>
                   reqs[m].user = reqs[i].setcookie.sub
            /\ reqs[m].at = reqs[i].at + (JWT_EXP_MIN + 1) * 60 =>
                   reqs[m].user = None

\* request r, made after logout l, carries the cookie l carried, and the
\* cookie is a token of the server that has not expired when r is handled
UsedAfterLogout(l, r) ==
    /\ l < r
    /\ reqs[l].op = "logout"
    /\ reqs[r].op \in {"me", "files"}
    /\ reqs[r].cookie = reqs[l].cookie
    /\ ValidSession(reqs[r].cookie, reqs[r].at)

\* C9: a copy of a session token is still accepted after the logout of its
\* session, until the token's own expiry: the protected operation runs as
\* the token's user.
C9_LogoutKeepsToken ==
    \A l, r \in Ids :
        UsedAfterLogout(l, r) =>
            /\ reqs[r].user = reqs[r].cookie.sub
            /\ reqs[r].op = "files" => reqs[r].status = 200

\* a's files were listed with a's token after a's logout
C9_Witness ==
    \E l, r \in Ids :
        /\ UsedAfterLogout(l, r)
        /\ reqs[r].op = "files" /\ reqs[r].user = U_a
        /\ reqs[r].status = 200

-----------------------------------------------------------------------------
(* File store claims *)

\* the resolved path q is a file of the directory `home`
InsideDir(q, home) ==
    Len(q) > Len(home) /\ SubSeq(q, 1, Len(home)) = home

\* C10: the file a download serves or a delete removes, and the directory
\* a listing reads, lie in the directory of the authenticated caller.
C10_OwnDirectoryOnly ==
    \A r \in Ids :
        (reqs[r].user # None /\ reqs[r].rpath # <<>>) =>
            /\ reqs[r].op \in {"download", "delete"} =>
                   InsideDir(reqs[r].rpath, Home(reqs[r].user))
            /\ reqs[r].op = "files" => reqs[r].rpath = Home(reqs[r].user)

-----------------------------------------------------------------------------
(* Upload claims *)

UploadIds == {i \in Ids : reqs[i].op = "upload" /\ reqs[i].user # None}

\* the file name has a ".." component or is an absolute path
UnsafeName(name) ==
    \/ IsAbs(name)
    \/ \E k \in DOMAIN SplitSlash(name, <<>>) : SplitSlash(name, <<>>)[k] = DOTDOT

\* C11: an upload whose file name has a ".." or absolute-path component is
\* rejected (a 400 answered before the handler opens anything), and no
\* upload opens a file outside the uploading user's directory.
C11_UnsafeNameRejected ==
    \A r \in UploadIds :
        /\ UnsafeName(reqs[r].name) =>
               /\ reqs[r].pc = "done"
               /\ reqs[r].status = 400
               /\ reqs[r].rpath = <<>>
        /\ reqs[r].rpath # <<>> =>
               InsideDir(reqs[r].rpath, Home(reqs[r].user))

\* the extensions the specification allows
ClaimedExts == {<<".", "z", "i", "p">>, <<".", "r", "a", "r">>,
                <<".", "a", "p", "k">>}

\* the name does not end, in whatever case, in one of the claimed
\* extensions after at least one more character
Unsupported(name) ==
    ~\E e \in ClaimedExts :
        /\ Len(name) > Len(e)
        /\ Lower(SubSeq(name, Len(name) - Len(e) + 1, Len(name))) = e

\* request i is an upload of an authenticated user under a name that is
\* there but has no supported extension
UnsupportedUpload(i) ==
    /\ i \in UploadIds
    /\ reqs[i].name # <<>>
    /\ Unsupported(reqs[i].name)

\* nothing of request i has reached a socket
NothingSent(i) ==
    \A w \in Socks : \A k \in DOMAIN socks[w].inbox : socks[w].inbox[k].by # i

C12_RejectedState ==
    \A i \in Ids :
        UnsupportedUpload(i) =>
            /\ reqs[i].pc = "done"
            /\ reqs[i].status = 400
            /\ reqs[i].error = "Chi ho tro file nen (.zip, .rar, .apk)"
            /\ reqs[i].rpath = <<>>
            /\ reqs[i].events = <<>>
            /\ NothingSent(i)

C12_RejectedStep ==
    (/\ Len(reqs') = Len(reqs) + 1
     /\ reqs'[Len(reqs')].op = "upload"
     /\ reqs'[Len(reqs')].user # None
     /\ reqs'[Len(reqs')].name # <<>>
     /\ Unsupported(reqs'[Len(reqs')].name)) =>
        UNCHANGED <<dirs, files, rooms, socks>>

\* C12: an upload under a name whose extension, whatever its case, is not
\* .zip, .rar or .apk is answered 400 (unsupported type) and has written
\* nothing: the handling of the request leaves the directories, the files
\* and the sockets as they were, and no progress or refresh message of it
\* is ever broadcast.
C12_UnsupportedTypeRejected ==
    []C12_RejectedState /\ [][C12_RejectedStep]_vars

\* a's upload of f.txt has been refused
C12_Witness ==
    \E i \in Ids :
        /\ UnsupportedUpload(i)
        /\ reqs[i].name = N_txt
        /\ reqs[i].status = 400

\* upload u has opened its target, and no later upload has opened the same
LastOnPath(u) ==
    /\ u \in UploadIds
    /\ reqs[u].rpath # <<>>
    /\ \A v \in UploadIds : v > u => reqs[v].rpath # reqs[u].rpath

\* the entries of listing l under the name of upload u
EntriesOf(l, u) ==
    {k \in DOMAIN reqs[l].rfiles : reqs[l].rfiles[k].name = reqs[u].name}

\* listing l is the request right after upload u, by the same user
ListedAfter(u, l) ==
    /\ u \in UploadIds
    /\ l = u + 1 /\ l \in Ids
    /\ reqs[u].status = 200
    /\ reqs[l].op = "files" /\ reqs[l].status = 200
    /\ reqs[l].user = reqs[u].user

\* C13: with requests handled one at a time, a listing that follows a
\* successful upload of N bytes has exactly one entry under the upload's
\* name, of size N; all along the upload the file holds exactly the part of
\* the body read and written so far, the chunk in hand being the next
\* MAX_UPLOAD_CHUNK bytes of the body, and at the end it holds the body and
\* nothing of what the name held before.
C13_UploadStoresBody ==
    /\ \A u, l \in Ids :
           ListedAfter(u, l) =>
               /\ Cardinality(EntriesOf(l, u)) = 1
               /\ \A k \in EntriesOf(l, u) :
                      reqs[l].rfiles[k].size = Size(reqs[u].body)
    /\ \A u \in Ids :
           (LastOnPath(u) /\ reqs[u].status # 500) =>
               /\ reqs[u].rpath \in DOMAIN files
               /\ files[reqs[u].rpath].data = Take(reqs[u].body, reqs[u].total)
               /\ IF reqs[u].pc = "write"
                  THEN /\ reqs[u].chunk = Take(Drop(reqs[u].body, reqs[u].total),
                                               MAX_UPLOAD_CHUNK)
                       /\ reqs[u].left = Drop(reqs[u].body,
                                              reqs[u].total + Size(reqs[u].chunk))
                  ELSE reqs[u].left = Drop(reqs[u].body, reqs[u].total)
               /\ reqs[u].status = 200 =>
                      files[reqs[u].rpath].data = reqs[u].body

\* f.zip, which held one byte, was uploaded again in two chunks and then
\* listed
C13_Witness ==
    \E u, l \in Ids :
        /\ ListedAfter(u, l)
        /\ reqs[u].name = N_f
        /\ Len(reqs[u].body) = 2
        /\ \E k \in EntriesOf(l, u) :
               reqs[l].rfiles[k].size = MAX_UPLOAD_CHUNK + 1

\* C14: a listing made for the uploading user while an upload is still
\* under way, the target already opened, has no entry under the upload's
\* name with fewer bytes than the body.
C14_NoPartialListing ==
    \A u \in UploadIds : \A l \in Ids :
        (/\ u < l
         /\ reqs[u].pc # "done"
         /\ reqs[l].op = "files" /\ reqs[l].status = 200
         /\ reqs[l].user = reqs[u].user) =>
            \A k \in EntriesOf(l, u) :
                reqs[l].rfiles[k].size >= Size(reqs[u].body)

\* the positions of socket w's inbox that hold progress messages of request r
ProgressAt(w, r) ==
    {k \in DOMAIN socks[w].inbox :
        socks[w].inbox[k].by = r /\ socks[w].inbox[k].msg.type = "progress"}

\* the positions that hold the refresh message of request r
RefreshAt(w, r) ==
    {k \in DOMAIN socks[w].inbox :
        socks[w].inbox[k].by = r /\ socks[w].inbox[k].msg.type = "refresh"}

\* C15: the i-th progress message an upload broadcasts carries the size of
\* its first i chunks, so the counts never decrease; the last one carries
\* the handler's count of bytes written, which after a successful upload
\* is the size of the body; and a socket receives the progress messages of
\* one upload with counts that never decrease.
C15_ProgressCumulative ==
    \A r \in UploadIds :
        LET ev == reqs[r].events
            n == Len(ev)
        IN  /\ \A i \in DOMAIN ev :
                   ev[i].type = "progress" =>
                       /\ ev[i].bytes =
                              Size(Take(reqs[r].body, i * MAX_UPLOAD_CHUNK))
                       /\ i > 1 => ev[i - 1].bytes <= ev[i].bytes
            /\ (n > 0 /\ ev[n].type = "progress") =>
                   ev[n].bytes = reqs[r].total
            /\ (n > 1 /\ reqs[r].status = 200) =>
                   ev[n - 1].bytes = Size(reqs[r].body)
            /\ \A w \in Socks : \A j, k \in ProgressAt(w, r) :
                   j < k => socks[w].inbox[j].msg.bytes
                                <= socks[w].inbox[k].msg.bytes

\* a socket has received both progress messages of a finished two-chunk
\* upload
C15_Witness ==
    \E r \in UploadIds : \E w \in Socks :
        /\ reqs[r].status = 200
        /\ Cardinality(ProgressAt(w, r)) = 2

\* the number of reads of MAX_UPLOAD_CHUNK bytes that return data
NChunks(body) == (Size(body) + MAX_UPLOAD_CHUNK - 1) \div MAX_UPLOAD_CHUNK

\* C16: an upload calls the refresh broadcast last, when the whole body has
\* been written and one progress broadcast per chunk has returned, and a
\* socket gets the refresh after the upload's progress messages; an upload
\* answered 200 has made its refresh broadcast; an upload whose write
\* failed is answered 500 and no refresh of it is broadcast.
C16_RefreshLast ==
    \A r \in UploadIds :
        LET ev == reqs[r].events
            n == Len(ev)
        IN  /\ \A i \in DOMAIN ev :
                   ev[i] = Refresh =>
                       /\ i = n /\ n = NChunks(reqs[r].body) + 1
                       /\ \A j \in 1..(i - 1) : ev[j].type = "progress"
                       /\ reqs[r].left = <<>>
                       /\ reqs[r].total = Size(reqs[r].body)
                       /\ reqs[r].msg = Refresh
            /\ \A w \in Socks : \A j \in ProgressAt(w, r) :
                   \A k \in RefreshAt(w, r) : j < k
            /\ reqs[r].status = 200 => (n > 0 /\ ev[n] = Refresh)
            /\ reqs[r].error = "OSError" =>
                   /\ reqs[r].pc = "done" /\ reqs[r].status = 500
                   /\ \A i \in DOMAIN ev : ev[i] # Refresh
                   /\ \A w \in Socks : RefreshAt(w, r) = {}

\* the write of an upload's second chunk failed after a socket had got
\* the progress message of the first
C16_Witness ==
    \E r \in UploadIds : \E w \in Socks :
        /\ reqs[r].error = "OSError" /\ reqs[r].status = 500
        /\ ProgressAt(w, r) # {}

-----------------------------------------------------------------------------
(* Hub and live channel claims *)

\* the connections registered under user u
Members(u) == IF u \in DOMAIN rooms THEN rooms[u] ELSE {}

\* the same, after the step
MembersNext(u) == IF u \in DOMAIN rooms' THEN rooms'[u] ELSE {}

\* socket w has been sent the message of request r's broadcast
Got(w, r) ==
    \E k \in DOMAIN socks[w].inbox :
        socks[w].inbox[k] = [by |-> r, msg |-> reqs[r].msg]

\* this step is one send of the broadcast of request r
SendOf(r) == r \in Ids /\ reqs[r].pc = "send" /\ reqs'[r] # reqs[r]

\* this step starts request r, which begins its broadcast at once
BeginOf(r) == r \in DOMAIN reqs' /\ r \notin Ids /\ reqs'[r].msg = Refresh

C17_Audience ==
    /\ \A r \in Ids : \A w \in reqs[r].aud \ reqs[r].snap :
           w \in reqs[r].dead \/ Got(w, r)
    /\ \A r \in Ids : reqs[r].pc = "done" => reqs[r].snap = {}
    /\ \A w \in Socks : \A k \in DOMAIN socks[w].inbox :
           reqs[socks[w].inbox[k].by].user = socks[w].user

C17_BroadcastStep ==
    /\ \A r \in DOMAIN reqs' :
           BeginOf(r) =>
               /\ reqs'[r].aud = Members(reqs'[r].user)
               /\ rooms' = rooms
    /\ \A r \in Ids :
           SendOf(r) =>
               /\ reqs'[r].aud = reqs[r].aud
               /\ \A u \in DOMAIN rooms \cup DOMAIN rooms' :
                      u # reqs[r].user => MembersNext(u) = Members(u)
               /\ \A w \in Socks :
                      socks[w].user # reqs[r].user => socks'[w] = socks[w]

\* C17: a broadcast for user u is addressed to the connections registered
\* under u when it begins; each of them is sent the message or its send
\* fails; a connection receives messages of its own user's broadcasts only;
\* and no step of the broadcast changes the set or a socket of another user.
C17_BroadcastToOwnRoom ==
    []C17_Audience /\ [][C17_BroadcastStep]_vars

\* a broadcast for one user has been delivered while a connection of the
\* other user, registered, received nothing
C17_Witness ==
    \E r \in Ids : \E w, x \in Socks :
        /\ reqs[r].pc = "done" /\ w \in reqs[r].aud /\ Got(w, r)
        /\ socks[x].user # None /\ socks[x].user # reqs[r].user
        /\ x \in Members(socks[x].user)
        /\ socks[x].inbox = <<>>

C18_Delivered ==
    \A r \in Ids :
        /\ reqs[r].dead \subseteq reqs[r].aud
        /\ \A w \in reqs[r].aud \ (reqs[r].snap \cup reqs[r].dead) : Got(w, r)
        /\ \A w \in reqs[r].dead : ~Got(w, r)

C18_SendStep ==
    \A r \in Ids :
        SendOf(r) =>
            /\ \E w \in reqs[r].snap :
                   /\ reqs'[r].snap = reqs[r].snap \ {w}
                   /\ IF socks[w].state = "open"
                      THEN reqs'[r].dead = reqs[r].dead /\ Got(w, r)'
                      ELSE /\ reqs'[r].dead = reqs[r].dead \cup {w}
                           /\ socks'[w] = socks[w]
            /\ IF reqs'[r].snap = {}
               THEN /\ reqs'[r].pc = "done" /\ reqs'[r].status = 200
                    /\ MembersNext(reqs[r].user) =
                           Members(reqs[r].user) \ reqs'[r].dead
               ELSE /\ reqs'[r].pc = "send"
                    /\ rooms' = rooms

\* C18: a send that fails does not end the broadcast: every send of the
\* snapshot is tried, the message reaches every connection whose send does
\* not fail, the handler then goes on to its 200, and the last step removes
\* from the user's set exactly the connections whose send failed.
C18_DeadSubscriberPruned ==
    []C18_Delivered /\ [][C18_SendStep]_vars

\* a broadcast to one dead and one live connection has finished: the dead
\* one is out of the set, the live one got the message and is still in
C18_Witness ==
    \E r \in Ids :
        /\ reqs[r].pc = "done" /\ reqs[r].status = 200
        /\ reqs[r].dead # {}
        /\ reqs[r].dead \cap Members(reqs[r].user) = {}
        /\ \E w \in reqs[r].aud \ reqs[r].dead :
               Got(w, r) /\ w \in Members(reqs[r].user)

C19_Membership ==
    \A w \in Socks :
        IF socks[w].user = None
        THEN /\ socks[w].code = 4401 /\ socks[w].state = "closed"
             /\ \A u \in DOMAIN rooms : w \notin rooms[u]
        ELSE /\ \A u \in DOMAIN rooms : w \in rooms[u] => u = socks[w].user
             /\ socks[w].state = "open" => w \in Members(socks[w].user)

C19_Handshake ==
    /\ \A w \in DOMAIN socks' \ Socks :
           socks'[w].user # None =>
               /\ socks'[w].state = "open"
               /\ w \in MembersNext(socks'[w].user)
    /\ \A r \in DOMAIN reqs' :
           BeginOf(r) =>
               \A w \in Socks :
                   (socks[w].state = "open" /\ socks[w].user = reqs'[r].user)
                       => w \in reqs'[r].aud

\* C19: a connection opened with a valid session cookie of u is open and
\* in u's set when ws_main has handled its handshake, is in no other set,
\* stays in u's set while it is open, and is in the audience of every
\* broadcast for u begun while it is open; a connection without a session
\* is closed with 4401 and is in no set.
C19_RegisteredWhileOpen ==
    []C19_Membership /\ [][C19_Handshake]_vars

-----------------------------------------------------------------------------
(* Delete claims *)

DeleteIds ==
    {i \in Ids : reqs[i].op = "delete" /\ reqs[i].user # None
                                       /\ reqs[i].pc = "done"}

\* C20: every delete of an authenticated caller is answered 200, whatever
\* the name and whether or not the file was there; once it is answered, the
\* name is no file of the caller's directory; and two deletes of one name
\* by one caller get the same answer.
C20_DeleteIdempotent ==
    /\ \A i \in DeleteIds :
           /\ reqs[i].status = 200
           /\ ~IsFile(Join(UserDir(reqs[i].user), reqs[i].name), dirs, files)
    /\ \A i, j \in DeleteIds :
           (reqs[i].user = reqs[j].user /\ reqs[i].name = reqs[j].name) =>
               reqs[i].status = reqs[j].status

-----------------------------------------------------------------------------
(* Middleware claim *)

\* the requests to a route that is neither login, registration, QR claim,
\* a static asset nor the auth page
GatedOps == {"gate", "home", "lan", "me", "logout", "qr_create", "files",
             "delete"}

\* request i carries no cookie the server has issued
NoSession(q) == q.cookie \notin jar

C21_RefusedState ==
    \A i \in Ids :
        (/\ reqs[i].op \in GatedOps
         /\ NoSession(reqs[i])
         /\ reqs[i].pc = "done") =>
            /\ \/ reqs[i].status = 307 /\ reqs[i].location = P_auth
               \/ reqs[i].status = 401
            /\ reqs[i].rhost = ""
            /\ reqs[i].rfiles = <<>>
            /\ reqs[i].rtoken = 0
            /\ reqs[i].setcookie = NoCookie

C21_RefusedStep ==
    (/\ Len(reqs') = Len(reqs) + 1
     /\ reqs'[Len(reqs')].op \in GatedOps
     /\ NoSession(reqs'[Len(reqs')])) =>
        UNCHANGED <<dirs, files, qr_tokens, rooms, socks>>

\* C21: a request without a valid session to a route outside login,
\* registration, QR claim, static assets and the auth page is answered with
\* a redirect to /auth or with 401, carries no account data, no file
\* listing, no token and no host address, and leaves the files, the QR
\* tokens and the hub as they were.
C21_GateRefusesNoSession ==
    []C21_RefusedState /\ [][C21_RefusedStep]_vars

-----------------------------------------------------------------------------
(* Login claims *)

\* request i is a registration that created the account `name`
Registered(i, name) ==
    /\ reqs[i].op = "register"
    /\ reqs[i].status = 200
    /\ Strip(reqs[i].username) = name

LoginIds == {j \in Ids : reqs[j].op = "login" /\ reqs[j].pc = "done"}

\* C22: once a registration of a username (as stored: without surrounding
\* white space) with a non-empty password has succeeded, every later login
\* under that username with the same password is answered 200 and sets a
\* session cookie that verifies and whose subject is that username, and
\* every later login under it with another password is answered 401 and
\* sets no cookie.
C22_LoginAfterRegister ==
    \A j \in LoginIds : \A i \in 1 .. (j - 1) :
        Registered(i, Strip(reqs[j].username)) =>
            IF reqs[j].password = reqs[i].password
            THEN /\ reqs[j].status = 200
                 /\ reqs[j].setcookie # NoCookie
                 /\ reqs[j].setcookie.sub = Strip(reqs[i].username)
                 /\ reqs[j].setcookie.key = SECRET_KEY
                 /\ reqs[j].setcookie.exp > reqs[j].at
            ELSE /\ reqs[j].status = 401
                 /\ reqs[j].setcookie = NoCookie

\* " a" has registered with "pw"; then a login as "a" with "pw" succeeded
\* and a login as "a" with "qw" failed
C22_Witness ==
    \E i, j, k \in Ids :
        /\ Registered(i, <<"a">>) /\ reqs[i].password = "pw"
        /\ i < j /\ i < k
        /\ j \in LoginIds /\ reqs[j].username = <<"a">>
        /\ reqs[j].password = "pw" /\ reqs[j].status = 200
        /\ k \in LoginIds /\ Strip(reqs[k].username) = <<"a">>
        /\ reqs[k].password = "qw" /\ reqs[k].status = 401

\* what the client sees of a response: status code, body and cookies
Observable(q) ==
    [status |-> q.status, error |-> q.error, setcookie |-> q.setcookie,
     delcookie |-> q.delcookie]

\* login j named an account that existed / did not exist when it was made
KnownAt(j) == \E i \in 1 .. (j - 1) : Registered(i, Strip(reqs[j].username))

WrongPasswordAt(j) ==
    /\ KnownAt(j)
    /\ \A i \in 1 .. (j - 1) :
           Registered(i, Strip(reqs[j].username)) =>
               reqs[i].password # reqs[j].password

\* C23: a login under an unknown username and a login under a known
\* username with a wrong password get the same response: the same status
\* code, the same body and the same cookies.
C23_LoginFailuresAlike ==
    \A j, k \in LoginIds :
        (~KnownAt(j) /\ WrongPasswordAt(k)) =>
            Observable(reqs[j]) = Observable(reqs[k])

\* a login as the unknown "c" and a login as the registered "a" with a
\* wrong password have both been answered
C23_Witness ==
    \E j, k \in LoginIds :
        /\ ~KnownAt(j) /\ reqs[j].username = <<"c">>
        /\ WrongPasswordAt(k) /\ reqs[k].username = <<"a">>
        /\ reqs[k].password = "qw"

-----------------------------------------------------------------------------
(* Hub concurrency claim *)

C24_HubState ==
    /\ \A r \in Suspended :
           /\ reqs[r].snap # {}
           /\ reqs[r].snap \subseteq reqs[r].aud
           /\ reqs[r].dead \subseteq reqs[r].aud \ reqs[r].snap
    /\ \A r \in Ids :
           (reqs[r].pc = "done" /\ reqs[r].user # None) =>
               /\ reqs[r].status = 200
               /\ reqs[r].snap = {}
    /\ \A w \in Socks :
           socks[w].pc = "ended" => \A u \in DOMAIN rooms : w \notin rooms[u]

C24_HubStep ==
    /\ \A r \in Suspended :
           /\ reqs'[r].aud = reqs[r].aud
           /\ reqs'[r].snap \subseteq reqs[r].snap
           /\ rooms' # rooms =>
                  \/ reqs'[r] = reqs[r]
                  \/ reqs'[r].pc # "send"
    /\ \A w \in Socks :
           (/\ socks[w].pc = "receive" /\ socks'[w].pc = "ended"
            /\ w \notin Members(socks[w].user)) =>
               rooms' = rooms
    /\ \A w \in DOMAIN socks' \ Socks :
           socks'[w].pc = "ended" => rooms' = rooms

\* C24: whatever joins, leaves and other broadcasts happen while a
\* broadcast is suspended between two sends, the broadcast goes on over the
\* snapshot it took (its audience is fixed, and a change of the user's set
\* by somebody else leaves its iteration as it was) and its request is
\* answered 200; a connection whose handler has left is in no set from
\* then on; and a leave of a connection that is not a member changes
\* nothing.
C24_HubInterleavings ==
    []C24_HubState /\ [][C24_HubStep]_vars

\* two broadcasts are suspended: the first began before socket 2 joined,
\* the second after; socket 2 has since left and the second broadcast has
\* not sent to it yet
C24_Witness ==
    \E r1, r2 \in Suspended : \E w \in Socks :
        /\ r1 < r2
        /\ w \notin reqs[r1].aud
        /\ w \in reqs[r2].snap
        /\ socks[w].pc = "ended"
        /\ w \notin Members(socks[w].user)

-----------------------------------------------------------------------------
(* Upload termination claim *)

\* upload r is answered ok after its refresh, or a write of it has failed
Completed(r) ==
    /\ r \in Ids
    /\ reqs[r].pc = "done"
    /\ \/ reqs[r].error = "OSError"
       \/ /\ reqs[r].status = 200
          /\ reqs[r].events # <<>>
          /\ reqs[r].events[Len(reqs[r].events)] = Refresh

\* C25: every upload that has opened its file is in the end answered ok,
\* after broadcasting refresh, unless one of its writes fails, whether the
\* user's connections are open, closed and still registered (so that the
\* sends to them fail), or gone: from some moment on every upload made is
\* completed.
C25_UploadCompletes ==
    <>[](\A r \in Ids : reqs[r].op = "upload" => Completed(r))

\* an upload of two chunks has been answered ok although a send of one of
\* its broadcasts failed on a closed connection
C25_Witness ==
    \E r \in Ids : \E w \in Socks :
        /\ reqs[r].op = "upload"
        /\ reqs[r].pc = "done" /\ reqs[r].status = 200
        /\ Len(reqs[r].events) = 3
        /\ socks[w].state = "closed"
        /\ \E k \in DOMAIN socks[w].inbox : socks[w].inbox[k].by = r
        /\ ~ \E k \in DOMAIN socks[w].inbox :
                socks[w].inbox[k] = [by |-> r, msg |-> Refresh]

-----------------------------------------------------------------------------
(* Quota bookkeeping claim *)

RefusedCodes == {400, 403, 409}

C26_QuotaState ==
    /\ \A ip \in Ips \cup DOMAIN ip_quota :
           QuotaCount(ip) = Cardinality(AccountsCreated(ip))
    /\ \A i \in RegisterIds :
           reqs[i].status = 409 => Strip(reqs[i].username) \in DOMAIN users

\* the registration answered in this step, if any, was refused
RefusedInStep ==
    \E i \in DOMAIN reqs' :
        /\ reqs'[i].op = "register"
        /\ reqs'[i].status \in RefusedCodes
        /\ i \in Ids => reqs[i].pc # "done"

C26_QuotaStep ==
    /\ \A ip \in DOMAIN ip_quota :
           ip \in DOMAIN ip_quota' /\ ip_quota'[ip] >= ip_quota[ip]
    /\ RefusedInStep => UNCHANGED <<users, ip_quota>>

\* C26: the counter stored for an address equals the number of accounts
\* created from it and never decreases; a registration refused with 400,
\* 403 or 409 leaves the users and the counters as they were; and 409
\* (username exists) is answered only when the requested username exists.
C26_QuotaBookkeeping ==
    []C26_QuotaState /\ [][C26_QuotaStep]_vars

-----------------------------------------------------------------------------
(* Concurrent uploads claim *)

\* u and v are the two uploads made to one path, both answered ok
BothStored(u, v) ==
    /\ u \in UploadIds /\ v \in UploadIds /\ u < v
    /\ reqs[u].rpath # <<>> /\ reqs[v].rpath = reqs[u].rpath
    /\ reqs[u].status = 200 /\ reqs[v].status = 200
    /\ \A x \in UploadIds \ {u, v} : reqs[x].rpath # reqs[u].rpath

\* C27: when two uploads by one user under one file name have both been
\* answered ok, however their steps were interleaved, the stored file is
\* the whole body of one of the two.
C27_OneBodyStored ==
    \A u, v \in Ids :
        BothStored(u, v) =>
            /\ reqs[u].rpath \in DOMAIN files
            /\ files[reqs[u].rpath].data \in {reqs[u].body, reqs[v].body}

====
